---- MODULE Spec2Model ----
(***************************************************************************)
(* ScamShield bot (app.py): the premium table (SQLite `users`), the daily  *)
(* usage file (usage_counts.json), and the message handler that composes   *)
(* quota check, rule-based scoring and the OpenAI fallback.                *)
(*                                                                         *)
(* Time is counted in ticks; TicksPerDay ticks make one calendar day.      *)
(* datetime.utcnow() is `now`, date.today() is `now \div TicksPerDay`      *)
(* (the server clock is taken to run on UTC).                              *)
(***************************************************************************)
EXTENDS Integers, Sequences, FiniteSets, TLC

\* ---------------------------------------------------------------- bounds
MaxProcs == 2
TicksPerDay == 2
MaxNow == 3
MaxGrantDays == 1
\* DAILY_LIMIT = int(os.getenv("DAILY_LIMIT", "10")): a deployment setting
DAILY_LIMIT == 2

Users == {"u1", "u2"}
NoUser == "nobody"
Procs == 1..MaxProcs
GrantDays == 1..MaxGrantDays

\* ---------------------------------------------------------------- constants
AMBIGUOUS_LOW == 15
AMBIGUOUS_HIGH == 60
\* stripe_webhook line 389
PREMIUM_DAYS == 30
\* len(SUSPICIOUS_KEYWORDS)
NumKeywords == 20

\* Python's None, and a present value, as sequences of length 0 and 1
None == << >>
Some(x) == << x >>

\* ---------------------------------------------------------------- texts
\* A message text is described by what the scanner's patterns find in it:
\* blank (empty after strip()), kw (how many of the keyword patterns match),
\* url, shortener (only with a url), money, punct ("!!"), shout (uppercase).
Text(blank, kw, url, shortener, money, punct, shout) ==
    [blank |-> blank, kw |-> kw, url |-> url, shortener |-> shortener,
     money |-> money, punct |-> punct, shout |-> shout]

\* The texts the handlers receive: a blank one, and texts of score 14 (below
\* the band), 57 (inside it) and 60 (the upper edge)
BlankText == Text(TRUE, 0, FALSE, FALSE, FALSE, FALSE, FALSE)
Text14 == Text(FALSE, 0, FALSE, FALSE, FALSE, TRUE, TRUE)
Text57 == Text(FALSE, 0, TRUE, TRUE, TRUE, TRUE, FALSE)
Text60 == Text(FALSE, 2, TRUE, FALSE, TRUE, FALSE, FALSE)
Texts == { BlankText, Text14, Text57, Text60 }
\* texts whose score is outside the band: the classifier is not called
PlainTexts == { Text14 }

Min(a, b) == IF a < b THEN a ELSE b
B(x) == IF x THEN 1 ELSE 0

\* mutant: the score is not clamped
RuleScore_noclamp(t) ==
    18 * t.kw + 12 * B(t.url) + 25 * B(t.shortener)
    + 12 * B(t.money) + 8 * B(t.punct) + 6 * B(t.shout)

\* analyze_text_rule_based, lines 142-171: the score
RuleScore(t) ==
    Min(100, 18 * t.kw + 12 * B(t.url) + 25 * B(t.shortener)
             + 12 * B(t.money) + 8 * B(t.punct) + 6 * B(t.shout))

\* mutant: the High threshold compared with > instead of >=
RuleVerdict_gt(score) ==
    IF score > 60 THEN "High"
    ELSE IF score >= 30 THEN "Medium"
    ELSE "Low"

\* analyze_text_rule_based, lines 172-180: the verdict
RuleVerdict(score) ==
    IF score >= 60 THEN "High"
    ELSE IF score >= 30 THEN "Medium"
    ELSE "Low"

\* analyze_text_rule_based, lines 174-180: the advice that goes with a verdict
RuleAdvice(verdict) ==
    CASE verdict = "High" ->
           "Do NOT click links or reply. Verify with official channels."
      [] verdict = "Medium" ->
           "Be cautious - check sender identity and links before interacting."
      [] OTHER -> "Appears low risk, but always verify."

analyze_text_rule_based(t) ==
    LET score == RuleScore(t)
        verdict == RuleVerdict(score)
    IN [verdict |-> verdict, score |-> score, advice |-> RuleAdvice(verdict)]

\* mutant: the upper edge of the band taken as inside it
Ambiguous_closed(score) == AMBIGUOUS_LOW < score /\ score <= AMBIGUOUS_HIGH

\* handle_message line 303
Ambiguous(score) == AMBIGUOUS_LOW < score /\ score < AMBIGUOUS_HIGH

\* ---------------------------------------------------------------- replies
ReplyEmpty == [kind |-> "empty", verdict |-> "", score |-> 0, advice |-> "",
               limit |-> 0, raw |-> ""]
ReplyQuota == [kind |-> "quota", verdict |-> "", score |-> 0, advice |-> "",
               limit |-> DAILY_LIMIT, raw |-> ""]
ReplyError == [kind |-> "error", verdict |-> "", score |-> 0, advice |-> "",
               limit |-> 0, raw |-> ""]
ReplyAi(raw) == [kind |-> "ai", verdict |-> "", score |-> 0, advice |-> "",
                 limit |-> 0, raw |-> raw]
\* format_result(rule): the verdict, the score and the advice of the rule result
format_result(rule) ==
    [kind |-> "rule", verdict |-> rule.verdict, score |-> rule.score,
     advice |-> rule.advice, limit |-> 0, raw |-> ""]

AiAnswers == {"ai_answer"}

\* ---------------------------------------------------------------- state
VARIABLES
    now,        \* the clock, in ticks
    openai_key, \* OPENAI_KEY is set
    users,      \* the users table: telegram_id -> [is_premium, premium_until]
    usage,      \* the content of usage_counts.json: user -> [date, count]
    pc,         \* where each handler is
    uid,        \* handler: update.message.from_user.id
    text,       \* handler: the message text
    data,       \* handler: the dict load_usage returned
    res,        \* handler: <<ok, cnt>> of check_and_increment_usage
    ai,         \* handler: what analyze_with_openai returned
    replies,    \* handler: the reply_text calls made, in order
    fault,      \* history: a load or a save of the usage file failed
    checks,     \* history: per user, the day and number of counted checks
    allowed,    \* history: per user, the day and number of allowed messages
    calls,      \* history: handler: calls of check_and_increment_usage made
    scan,       \* the last run of the scanner on its own: input and result
    stripe_secret, \* STRIPE_WEBHOOK_SECRET is set
    webhook     \* the last response of /stripe-webhook and the event it parsed

vars == << now, openai_key, users, usage, pc, uid, text, data, res, ai,
           replies, fault, checks, allowed, calls, scan, stripe_secret,
           webhook >>

xvars == << scan, stripe_secret, webhook >>

hvars == << pc, uid, text, data, res, ai, replies, fault >>

today == now \div TicksPerDay

\* datetime.isoformat() and datetime.fromisoformat()
isoformat(t) == << "iso", t >>
IsIso(s) == Len(s) = 2 /\ s[1] = "iso"
fromisoformat(s) == s[2]

\* date.isoformat()
dateiso(d) == << "date", d >>

EmptyDict == [u \in {} |-> 0]

NoCount == [day |-> -1, n |-> 0]
NoAi == [ok |-> FALSE, error |-> "", raw |-> ""]
NoRes == [ok |-> FALSE, cnt |-> None]
NoText == BlankText
NoScan == [kind |-> "none", src |-> 0, text |-> NoText, score |-> 0,
           verdict |-> "", advice |-> ""]
NoRef == ""
NoResponse == [status |-> 0, type |-> "", tg |-> NoRef]

Boot ==
    /\ now = 0
    /\ openai_key \in BOOLEAN
    /\ users = EmptyDict
    /\ usage = EmptyDict
    /\ pc = [p \in Procs |-> "idle"]
    /\ uid = [p \in Procs |-> NoUser]
    /\ text = [p \in Procs |-> NoText]
    /\ data = [p \in Procs |-> EmptyDict]
    /\ res = [p \in Procs |-> NoRes]
    /\ ai = [p \in Procs |-> NoAi]
    /\ replies = [p \in Procs |-> << >>]
    /\ fault = [p \in Procs |-> FALSE]
    /\ checks = [u \in Users |-> NoCount]
    /\ allowed = [u \in Users |-> NoCount]
    /\ calls = [p \in Procs |-> 0]
    /\ scan = NoScan
    /\ webhook = NoResponse

Init == Boot /\ stripe_secret = TRUE

\* ---------------------------------------------------------------- clock
Tick ==
    /\ now < MaxNow
    /\ now' = now + 1
    /\ UNCHANGED << openai_key, users, usage, hvars, checks, allowed >>
    /\ UNCHANGED << calls, xvars >>

\* ---------------------------------------------------------------- premium
\* dict.get(key, default) and d[key] = value on a dict kept as a function
Get(d, k, default) == IF k \in DOMAIN d THEN d[k] ELSE default
Put(d, k, v) == [x \in DOMAIN d \cup {k} |-> IF x = k THEN v ELSE d[x]]

\* set_premium line 70: the expiry that is stored
GrantUntil(u, days) == isoformat(now + days * TicksPerDay)

\* mutant: an expiry equal to now still counts as premium
is_premium_ge(u) ==
    /\ u \in DOMAIN users
    /\ fromisoformat(users[u].premium_until) >= now

\* is_premium, lines 82-96
is_premium(u) ==
    IF u \notin DOMAIN users THEN FALSE
    ELSE LET is_p == users[u].is_premium
             premium_until == users[u].premium_until
         IN IF is_p # 0 /\ premium_until # None
            THEN IF IsIso(premium_until)
                 THEN fromisoformat(premium_until) > now
                 ELSE is_p # 0
            ELSE is_p # 0

\* set_premium, lines 69-80 (INSERT ... ON CONFLICT DO UPDATE)
set_premium(u, days) ==
    /\ users' = Put(users, u, [is_premium |-> 1,
                               premium_until |-> GrantUntil(u, days)])
    /\ UNCHANGED << now, openai_key, usage, hvars, checks, allowed >>
    /\ UNCHANGED << calls, xvars >>

\* the event types of Stripe the endpoint tells apart, and one it does not
EventTypes == { "checkout.session.completed", "invoice.payment_failed",
                "customer.created" }

\* mutant: premium is granted on an event of any type
GrantsPremium_anytype(type, tg) == tg # NoRef

\* stripe_webhook lines 383-388: the event grants premium
GrantsPremium(type, tg) == type = "checkout.session.completed" /\ tg # NoRef

\* stripe_webhook, lines 369-403: sig_ok says whether construct_event accepts
\* the payload and its signature header; tg is the event's
\* client_reference_id
stripe_webhook(sig_ok, type, tg) ==
    /\ IF ~stripe_secret
       THEN /\ webhook' = [status |-> 500, type |-> "", tg |-> NoRef]
            /\ UNCHANGED users
       ELSE IF ~sig_ok
       THEN /\ webhook' = [status |-> 400, type |-> "", tg |-> NoRef]
            /\ UNCHANGED users
       ELSE /\ webhook' = [status |-> 200, type |-> type, tg |-> tg]
            /\ users' = IF GrantsPremium(type, tg)
                        THEN Put(users, tg,
                                 [is_premium |-> 1,
                                  premium_until |-> GrantUntil(tg, PREMIUM_DAYS)])
                        ELSE users
    /\ UNCHANGED << now, openai_key, usage, hvars, checks, allowed, calls,
                    scan, stripe_secret >>

\* ---------------------------------------------------------------- quota
\* one more counted event on day d, kept below a cap
Bump(h, d, cap) ==
    IF d = h.day THEN [day |-> d, n |-> Min(h.n + 1, cap)]
    ELSE IF d > h.day THEN [day |-> d, n |-> 1]
    ELSE h

\* mutant: the entry of an earlier day is not reset
EntryFor_stale(d, u, td) == Get(d, u, [date |-> td, count |-> 0])

\* check_and_increment_usage lines 117-121: the entry the decision is made on
EntryFor(d, u, td) ==
    LET entry == Get(d, u, [date |-> td, count |-> 0])
    IN IF entry.date # td THEN [date |-> td, count |-> 0] ELSE entry

\* mutant: the limit is compared with > instead of >=
LimitReached_gt(entry) == entry.count > DAILY_LIMIT

\* check_and_increment_usage line 122
LimitReached(entry) == entry.count >= DAILY_LIMIT

\* mutant: the count is incremented also when the limit is reached
NextEntry_unguarded(entry) == [entry EXCEPT !.count = entry.count + 1]

\* check_and_increment_usage lines 122-129: the entry that is stored
NextEntry(entry) ==
    IF LimitReached(entry) THEN entry
    ELSE [entry EXCEPT !.count = entry.count + 1]

\* mutant: the empty text is not rejected
Receive_noreject(p, u, t) ==
    /\ pc[p] = "idle"
    /\ uid' = [uid EXCEPT ![p] = u]
    /\ text' = [text EXCEPT ![p] = t]
    /\ pc' = [pc EXCEPT ![p] = "is_premium"]
    /\ UNCHANGED << now, openai_key, users, usage, data, res, ai, replies,
                    fault, checks, allowed, calls, xvars >>

\* handle_message lines 287-291
Receive(p, u, t) ==
    /\ pc[p] = "idle"
    /\ uid' = [uid EXCEPT ![p] = u]
    /\ text' = [text EXCEPT ![p] = t]
    /\ IF t.blank
       THEN /\ replies' = [replies EXCEPT ![p] = << ReplyEmpty >>]
            /\ pc' = [pc EXCEPT ![p] = "done"]
       ELSE /\ pc' = [pc EXCEPT ![p] = "is_premium"]
            /\ UNCHANGED replies
    /\ UNCHANGED << now, openai_key, users, usage, data, res, ai, fault,
                    checks, allowed >>
    /\ UNCHANGED << calls, xvars >>

\* mutant: the premium user is let through, but counted in the usage file
CheckPremium_counted(p) ==
    /\ pc[p] = "is_premium"
    /\ IF is_premium(uid[p])
       THEN /\ res' = [res EXCEPT ![p] = [ok |-> TRUE, cnt |-> None]]
            /\ usage' = Put(usage, uid[p],
                            [date |-> dateiso(today),
                             count |-> EntryFor(usage, uid[p], dateiso(today)).count + 1])
            /\ pc' = [pc EXCEPT ![p] = "score"]
       ELSE /\ pc' = [pc EXCEPT ![p] = "load"]
            /\ UNCHANGED << res, usage >>
    /\ UNCHANGED << now, openai_key, users, uid, text, data, ai,
                    replies, fault, checks, allowed >>
    /\ calls' = [calls EXCEPT ![p] = Min(@ + 1, 2)]
    /\ UNCHANGED xvars

\* check_and_increment_usage lines 114-115
CheckPremium(p) ==
    /\ pc[p] = "is_premium"
    /\ IF is_premium(uid[p])
       THEN /\ res' = [res EXCEPT ![p] = [ok |-> TRUE, cnt |-> None]]
            /\ pc' = [pc EXCEPT ![p] = "score"]
       ELSE /\ pc' = [pc EXCEPT ![p] = "load"]
            /\ UNCHANGED res
    /\ UNCHANGED << now, openai_key, users, usage, uid, text, data, ai,
                    replies, fault, checks, allowed >>
    /\ calls' = [calls EXCEPT ![p] = Min(@ + 1, 2)]
    /\ UNCHANGED xvars

\* load_usage, lines 98-101: the file is read
LoadUsage(p) ==
    /\ pc[p] = "load"
    /\ data' = [data EXCEPT ![p] = usage]
    /\ pc' = [pc EXCEPT ![p] = "today"]
    /\ UNCHANGED << now, openai_key, users, usage, uid, text, res, ai,
                    replies, fault, checks, allowed >>
    /\ UNCHANGED << calls, xvars >>

\* load_usage, lines 102-103: the read fails and {} is returned
LoadUsageFail(p) ==
    /\ pc[p] = "load"
    /\ data' = [data EXCEPT ![p] = EmptyDict]
    /\ fault' = [fault EXCEPT ![p] = TRUE]
    /\ pc' = [pc EXCEPT ![p] = "today"]
    /\ UNCHANGED << now, openai_key, users, usage, uid, text, res, ai,
                    replies, checks, allowed >>
    /\ UNCHANGED << calls, xvars >>

\* check_and_increment_usage lines 117-123 and 126-127: today is read and the
\* decision is made on the loaded dict
Decide(p) ==
    /\ pc[p] = "today"
    /\ LET u == uid[p]
           entry == EntryFor(data[p], u, dateiso(today))
           stored == NextEntry(entry)
           ok == ~LimitReached(entry)
       IN /\ data' = [data EXCEPT ![p] = Put(data[p], u, stored)]
          /\ res' = [res EXCEPT ![p] = [ok |-> ok, cnt |-> Some(stored.count)]]
          /\ checks' = [checks EXCEPT ![u] = Bump(@, today, DAILY_LIMIT + 2)]
          /\ allowed' = IF ok
                        THEN [allowed EXCEPT ![u] = Bump(@, today, DAILY_LIMIT + 1)]
                        ELSE allowed
    /\ pc' = [pc EXCEPT ![p] = "save"]
    /\ UNCHANGED << now, openai_key, users, usage, uid, text, ai, replies,
                    fault >>
    /\ UNCHANGED << calls, xvars >>

\* mutant: the test of ok is missing, a refused message goes on to the scorer
AfterCheck_ignore(p) ==
    /\ data' = [data EXCEPT ![p] = EmptyDict]
    /\ pc' = [pc EXCEPT ![p] = "score"]
    /\ UNCHANGED replies

\* check_and_increment_usage returns (its dict goes out of scope), then
\* handle_message lines 295-297
AfterCheck(p) ==
    /\ data' = [data EXCEPT ![p] = EmptyDict]
    /\ IF res[p].ok
       THEN /\ pc' = [pc EXCEPT ![p] = "score"]
            /\ UNCHANGED replies
       ELSE /\ pc' = [pc EXCEPT ![p] = "done"]
            /\ replies' = [replies EXCEPT ![p] = << ReplyQuota >>]

\* save_usage, lines 105-108, called at line 124 or 128: the whole file is
\* overwritten with the handler's dict
SaveUsage(p) ==
    /\ pc[p] = "save"
    /\ usage' = data[p]
    /\ AfterCheck(p)
    /\ UNCHANGED << now, openai_key, users, uid, text, res, ai, fault, checks, allowed >>
    /\ UNCHANGED << calls, xvars >>

\* save_usage, lines 109-110: the write fails and the exception is logged; the
\* file is left as it was (open failed) or truncated (dump failed), and a
\* truncated file reads back as {} in load_usage
SaveUsageFail(p, truncated) ==
    /\ pc[p] = "save"
    /\ usage' = IF truncated THEN EmptyDict ELSE usage
    /\ fault' = [fault EXCEPT ![p] = TRUE]
    /\ AfterCheck(p)
    /\ UNCHANGED << now, openai_key, users, uid, text, res, ai, checks, allowed >>
    /\ UNCHANGED << calls, xvars >>

\* ---------------------------------------------------------------- scoring
\* handle_message lines 299-304 and 312
Score(p) ==
    /\ pc[p] = "score"
    /\ LET rule == analyze_text_rule_based(text[p])
       IN IF Ambiguous(rule.score)
          THEN /\ pc' = [pc EXCEPT ![p] = "openai"]
               /\ UNCHANGED replies
          ELSE /\ pc' = [pc EXCEPT ![p] = "done"]
               /\ replies' = [replies EXCEPT ![p] = << format_result(rule) >>]
    /\ UNCHANGED << now, openai_key, users, usage, uid, text, data, res, ai,
                    fault, checks, allowed >>
    /\ UNCHANGED << calls, xvars >>

\* mutant: a failed classifier call is answered with the error reply
FallbackReplies_error(rule, answer) ==
    IF answer.ok THEN << ReplyAi(answer.raw) >>
    ELSE << ReplyError >>

\* mutant: the return after the classifier's answer is missing
FallbackReplies_both(rule, answer) ==
    IF answer.ok THEN << ReplyAi(answer.raw), format_result(rule) >>
    ELSE << format_result(rule) >>

\* handle_message lines 305-312: the replies sent once the classifier answered
FallbackReplies(rule, answer) ==
    IF answer.ok THEN << ReplyAi(answer.raw) >>
    ELSE << format_result(rule) >>

OpenAIReturns(p, answer) ==
    /\ pc[p] = "openai"
    /\ ai' = [ai EXCEPT ![p] = answer]
    /\ replies' = [replies EXCEPT ![p] =
                     FallbackReplies(analyze_text_rule_based(text[p]), answer)]
    /\ pc' = [pc EXCEPT ![p] = "done"]
    /\ UNCHANGED << now, openai_key, users, usage, uid, text, data, res,
                    fault, checks, allowed >>
    /\ UNCHANGED << calls, xvars >>

\* analyze_with_openai lines 196-197
OpenAINotConfigured(p) ==
    /\ ~openai_key
    /\ OpenAIReturns(p, [ok |-> FALSE, error |-> "no_openai", raw |-> ""])

\* analyze_with_openai lines 198-208
OpenAIOk(p, raw) ==
    /\ openai_key
    /\ OpenAIReturns(p, [ok |-> TRUE, error |-> "", raw |-> raw])

\* analyze_with_openai lines 209-212: the request or the reading of the
\* response raised
OpenAIError(p) ==
    /\ openai_key
    /\ OpenAIReturns(p, [ok |-> FALSE, error |-> "openai_error", raw |-> ""])

\* the handler returns; the next message gets a fresh invocation
Return(p) ==
    /\ pc[p] = "done"
    /\ pc' = [pc EXCEPT ![p] = "idle"]
    /\ uid' = [uid EXCEPT ![p] = NoUser]
    /\ text' = [text EXCEPT ![p] = NoText]
    /\ data' = [data EXCEPT ![p] = EmptyDict]
    /\ res' = [res EXCEPT ![p] = NoRes]
    /\ ai' = [ai EXCEPT ![p] = NoAi]
    /\ replies' = [replies EXCEPT ![p] = << >>]
    /\ fault' = [fault EXCEPT ![p] = FALSE]
    /\ UNCHANGED << now, openai_key, users, usage, checks, allowed >>
    /\ calls' = [calls EXCEPT ![p] = 0]
    /\ UNCHANGED xvars

\* ---------------------------------------------------------------- scanner
\* A text as the scanner reads it: the sequence of its characters.
UpperCase == << "A", "B", "C", "D", "E", "F", "G", "H", "I", "J", "K", "L", "M",
               "N", "O", "P", "Q", "R", "S", "T", "U", "V", "W", "X", "Y", "Z" >>
LowerCase == << "a", "b", "c", "d", "e", "f", "g", "h", "i", "j", "k", "l", "m",
               "n", "o", "p", "q", "r", "s", "t", "u", "v", "w", "x", "y", "z" >>
Digits == { "0", "1", "2", "3", "4", "5", "6", "7", "8", "9" }
Spaces == { " ", "\t", "\n" }

\* c.isupper(), line 167
IsUpper(c) == \E i \in 1..26 : UpperCase[i] = c
\* text.lower(), line 144
Lower(c) ==
    IF IsUpper(c) THEN LowerCase[CHOOSE i \in 1..26 : UpperCase[i] = c] ELSE c
\* mutant: the text is not lowered before the keywords are searched
ToLower_none(s) == s
ToLower(s) == [i \in 1..Len(s) |-> Lower(s[i])]

CharAt(s, i) == IF i \in 1..Len(s) THEN s[i] ELSE ""
IsDigit(s, i) == CharAt(s, i) \in Digits
IsSpace(s, i) == CharAt(s, i) \in Spaces

\* a pattern without metacharacters matches at position i
MatchAt(pat, s, i) ==
    /\ i >= 1
    /\ i + Len(pat) - 1 <= Len(s)
    /\ \A j \in 1..Len(pat) : s[i + j - 1] = pat[j]
\* re.search(pat, s) for such a pattern
Search(pat, s) == \E i \in 1..Len(s) : MatchAt(pat, s, i)

\* SUSPICIOUS_KEYWORDS, lines 132-138
SUSPICIOUS_KEYWORDS ==
    << << "w", "i", "r", "e", " ", "t", "r", "a", "n", "s", "f", "e", "r" >>,
       << "w", "e", "s", "t", "e", "r", "n", " ", "u", "n", "i", "o", "n" >>,
       << "b", "a", "n", "k", " ", "t", "r", "a", "n", "s", "f", "e", "r" >>,
       << "s", "e", "n", "d", " ", "m", "o", "n", "e", "y" >>,
       << "u", "r", "g", "e", "n", "t" >>,
       << "a", "c", "t", " ", "n", "o", "w" >>,
       << "v", "e", "r", "i", "f", "y", " ", "y", "o", "u", "r", " ", "a", "c",
      "c", "o", "u", "n", "t" >>,
       << "c", "l", "i", "c", "k", " ", "t", "h", "e", " ", "l", "i", "n", "k" >>,
       << "l", "i", "m", "i", "t", "e", "d", " ", "t", "i", "m", "e" >>,
       << "w", "i", "n", "n", "e", "r" >>,
       << "c", "o", "n", "g", "r", "a", "t", "u", "l", "a", "t", "i", "o", "n",
      "s" >>,
       << "p", "r", "i", "z", "e" >>,
       << "l", "o", "t", "t", "e", "r", "y" >>,
       << "c", "l", "a", "i", "m", " ", "n", "o", "w" >>,
       << "p", "a", "s", "s", "w", "o", "r", "d" >>,
       << "a", "c", "c", "o", "u", "n", "t", " ", "s", "u", "s", "p", "e", "n",
      "d", "e", "d" >>,
       << "d", "e", "p", "o", "s", "i", "t" >>,
       << "l", "o", "a", "n" >>,
       << "f", "i", "n", "a", "l", " ", "n", "o", "t", "i", "c", "e" >>,
       << "v", "e", "r", "i", "f", "y", " ", "i", "d", "e", "n", "t", "i", "t",
      "y" >> >>

\* URL_SHORTENERS, line 139: the alternatives (the dots are escaped)
URL_SHORTENERS ==
    << << "b", "i", "t", ".", "l", "y" >>,
       << "t", "i", "n", "y", "u", "r", "l" >>,
       << "t", ".", "c", "o" >>,
       << "g", "o", "o", ".", "g", "l" >>,
       << "o", "w", ".", "l", "y" >>,
       << "t", "i", "n", "y", ".", "c", "c" >>,
       << "i", "s", ".", "g", "d" >>,
       << "b", "u", "f", "f", ".", "l", "y" >> >>

\* lines 146-149: the patterns found in the lowered text
KeywordHits(s) ==
    { k \in 1..Len(SUSPICIOUS_KEYWORDS) :
        Search(SUSPICIOUS_KEYWORDS[k], ToLower(s)) }

\* line 151, re.findall(r"https?://[^\s]+", text): where a URL can start
UrlStart(s, i) ==
    \/ MatchAt(<< "h", "t", "t", "p", ":", "/", "/" >>, s, i)
         /\ i + 7 <= Len(s) /\ ~IsSpace(s, i + 7)
    \/ MatchAt(<< "h", "t", "t", "p", "s", ":", "/", "/" >>, s, i)
         /\ i + 8 <= Len(s) /\ ~IsSpace(s, i + 8)
HasUrl(s) == \E i \in 1..Len(s) : UrlStart(s, i)

\* line 155, re.search(URL_SHORTENERS, " ".join(urls), re.I): an alternative
\* found inside one URL (a URL runs to the next whitespace)
HasShortener(s) ==
    \E i \in 1..Len(s), q \in 1..Len(URL_SHORTENERS), j \in 1..Len(s) :
        /\ UrlStart(s, i)
        /\ j >= i
        /\ MatchAt(URL_SHORTENERS[q], ToLower(s), j)
        /\ \A x \in i..(j + Len(URL_SHORTENERS[q]) - 1) : ~IsSpace(s, x)

\* line 159: \$\s?\d{2,} or \d+\s?USD (ignoring case)
HasMoney(s) ==
    \/ \E i \in 1..Len(s) :
         /\ s[i] = "$"
         /\ \/ IsDigit(s, i + 1) /\ IsDigit(s, i + 2)
            \/ IsSpace(s, i + 1) /\ IsDigit(s, i + 2) /\ IsDigit(s, i + 3)
    \/ \E i \in 1..Len(s) :
         /\ IsDigit(s, i)
         /\ \/ MatchAt(<< "u", "s", "d" >>, ToLower(s), i + 1)
            \/ IsSpace(s, i + 1) /\ MatchAt(<< "u", "s", "d" >>, ToLower(s), i + 2)

\* line 163: !!+|!!!
HasPunct(s) == Search(<< "!", "!" >>, s)

\* line 167: more uppercase characters than max(6, int(len(text) * 0.12))
Max(a, b) == IF a > b THEN a ELSE b
HasShout(s) ==
    Cardinality({ i \in 1..Len(s) : IsUpper(s[i]) })
        > Max(6, (Len(s) * 12) \div 100)

\* line 288: (text or "").strip() is empty
IsBlank(s) == \A i \in 1..Len(s) : IsSpace(s, i)

\* what the scanner finds in a text
Features(s) ==
    IF IsBlank(s) THEN BlankText
    ELSE Text(FALSE, Cardinality(KeywordHits(s)), HasUrl(s), HasShortener(s),
              HasMoney(s), HasPunct(s), HasShout(s))

\* the example texts
UrgentText ==
    << "U", "R", "G", "E", "N", "T", "!", "!", " ", "V", "e", "r", "i", "f",
      "y", " ", "y", "o", "u", "r", " ", "a", "c", "c", "o", "u", "n", "t",
      " ", "n", "o", "w", " ", "o", "r", " ", "i", "t", " ", "w", "i", "l",
      "l", " ", "b", "e", " ", "s", "u", "s", "p", "e", "n", "d", "e", "d",
      ".", " ", "C", "l", "i", "c", "k", " ", "h", "t", "t", "p", ":", "/",
      "/", "b", "i", "t", ".", "l", "y", "/", "x", "y", "z" >>
MeetingText ==
    << "H", "e", "y", ",", " ", "a", "r", "e", " ", "w", "e", " ", "s", "t",
      "i", "l", "l", " ", "m", "e", "e", "t", "i", "n", "g", " ", "a", "t",
      " ", "5", "p", "m", "?" >>
PrizeText ==
    << "C", "o", "n", "g", "r", "a", "t", "u", "l", "a", "t", "i", "o", "n",
      "s", ",", " ", "y", "o", "u", " ", "w", "o", "n", " ", "a", " ", "p",
      "r", "i", "z", "e", ",", " ", "c", "l", "a", "i", "m", " ", "n", "o",
      "w" >>
MoneyText ==
    << "S", "E", "N", "D", " ", "M", "O", "N", "E", "Y", " ", "N", "O", "W",
      ":", " ", "$", " ", "5", "0", " ", "o", "r", " ", "2", "0", " ", "u",
      "s", "d", ",", " ", "s", "e", "e", " ", "h", "t", "t", "p", "s", ":",
      "/", "/", "m", "i", "c", "r", "o", "s", "o", "f", "t", ".", "c", "o",
      "m" >>
SpaceText ==
    << " ", " " >>
SampleStrings == << UrgentText, MeetingText, PrizeText, MoneyText, SpaceText >>

\* every combination of rules a text can trigger (a shortener needs a URL)
ScanTexts ==
    { t \in [blank : {FALSE}, kw : 0..NumKeywords, url : BOOLEAN,
             shortener : BOOLEAN, money : BOOLEAN, punct : BOOLEAN,
             shout : BOOLEAN] : t.shortener => t.url }

\* analyze_text_rule_based(text) run on its own: the result is kept in scan
ScanRun(kind, src, t) ==
    /\ LET rule == analyze_text_rule_based(t)
       IN scan' = [kind |-> kind, src |-> src, text |-> t,
                   score |-> rule.score, verdict |-> rule.verdict,
                   advice |-> rule.advice]
    /\ UNCHANGED << now, openai_key, users, usage, hvars, checks, allowed,
                    calls, stripe_secret, webhook >>

\* the scanner on a text given by the rules it triggers
ScanFeatures(t) == ScanRun("features", 0, t)

\* the scanner on the i-th example text
ScanString(i) == ScanRun("string", i, Features(SampleStrings[i]))

\* lines 172-180 on a score: the verdict and the advice
Grade(score) ==
    /\ scan' = [kind |-> "score", src |-> 0, text |-> NoText, score |-> score,
                verdict |-> RuleVerdict(score),
                advice |-> RuleAdvice(RuleVerdict(score))]
    /\ UNCHANGED << now, openai_key, users, usage, hvars, checks, allowed,
                    calls, stripe_secret, webhook >>

\* ---------------------------------------------------------------- specifications
\* the quota check of a message, lines 285-297
Quota(p, T) ==
    \/ \E u \in Users, t \in T : Receive(p, u, t)
    \/ CheckPremium(p)
    \/ LoadUsage(p)
    \/ Decide(p)
    \/ SaveUsage(p)

\* the classifier's answer, lines 195-212
Fallback(p) ==
    \/ OpenAINotConfigured(p)
    \/ \E raw \in AiAnswers : OpenAIOk(p, raw)
    \/ OpenAIError(p)

Grant == \E u \in Users, days \in GrantDays : set_premium(u, days)

\* Messages are handled one after another; premium is granted and time passes.
Next ==
    \/ Tick
    \/ Grant
    \/ Quota(1, Texts)
    \/ Score(1)
    \/ Fallback(1)
    \/ Return(1)

Spec == Init /\ [][Next]_vars

\* Messages of users without premium are handled concurrently (the server is
\* threaded); their texts are outside the band.
InitConc == Init /\ ~openai_key

NextConc ==
    \/ Tick
    \/ \E p \in Procs : Quota(p, PlainTexts) \/ Score(p) \/ Return(p)

SpecConc == InitConc /\ [][NextConc]_vars

\* One message at a time; reading or writing the usage file may fail.
NextFault ==
    \/ Tick
    \/ Quota(1, PlainTexts)
    \/ LoadUsageFail(1)
    \/ \E truncated \in BOOLEAN : SaveUsageFail(1, truncated)
    \/ Score(1)
    \/ Return(1)

SpecFault == InitConc /\ [][NextFault]_vars

\* The scanner alone, on every combination of rules, on the example texts, and
\* the verdict on every score.
NextScore ==
    \/ \E t \in ScanTexts : ScanFeatures(t)
    \/ \E i \in 1..Len(SampleStrings) : ScanString(i)
    \/ \E score \in 0..100 : Grade(score)

SpecScore == Init /\ [][NextScore]_vars

\* Messages of one user handled concurrently, the usage file readable and
\* writable: every handler works on the same record.
RaceUsers == { "u1" }

NextRace ==
    \/ Tick
    \/ \E p \in Procs :
          \/ \E u \in RaceUsers, t \in PlainTexts : Receive(p, u, t)
          \/ CheckPremium(p)
          \/ LoadUsage(p)
          \/ Decide(p)
          \/ SaveUsage(p)
          \/ Score(p)
          \/ Return(p)

SpecRace == InitConc /\ [][NextRace]_vars

\* Payment events arrive while the messages of one user are handled one after
\* another; the webhook secret may be missing.
InitStripe == Boot /\ ~openai_key /\ stripe_secret \in BOOLEAN

Event ==
    \E sig_ok \in BOOLEAN, type \in EventTypes, tg \in Users \cup {NoRef} :
        stripe_webhook(sig_ok, type, tg)

NextStripe ==
    \/ Tick
    \/ Event
    \/ \E u \in RaceUsers, t \in PlainTexts : Receive(1, u, t)
    \/ CheckPremium(1)
    \/ LoadUsage(1)
    \/ Decide(1)
    \/ SaveUsage(1)
    \/ Score(1)
    \/ Return(1)

SpecStripe == InitStripe /\ [][NextStripe]_vars

\* One message at a time. The handler's own steps are taken when they can be;
\* the classifier's answer (or the exception the request raises) comes from
\* outside and line 199 passes no timeout, so nothing forces it to come.
HandlerStep == Quota(1, Texts) \/ Score(1) \/ OpenAINotConfigured(1) \/ Return(1)

NextLive ==
    \/ Tick
    \/ Quota(1, Texts)
    \/ Score(1)
    \/ Fallback(1)
    \/ Return(1)

SpecLive == Init /\ [][NextLive]_vars /\ WF_vars(HandlerStep)

\* ---------------------------------------------------------------- claims
PremiumUntil(u) == fromisoformat(users[u].premium_until)
Handled(p) == pc[p] = "done"

\* C1: two concurrent quota checks of one user never both observe count k and
\* both store k+1 for the same day, and no more than DAILY_LIMIT messages of
\* a user are allowed on one day.
C1_AtomicQuota ==
    /\ \A p \in Procs, q \in Procs :
         (/\ p # q
          /\ uid[p] = uid[q]
          /\ pc[p] = "save" /\ pc[q] = "save"
          /\ res[p].ok /\ res[q].ok
          /\ data[p][uid[p]].date = data[q][uid[q]].date)
         => res[p].cnt # res[q].cnt
    /\ \A u \in Users : allowed[u].n <= DAILY_LIMIT

\* C2: with checks made one after another, the k-th counted check of a user on
\* a day returns (true, k) for k <= DAILY_LIMIT, and every later one on that
\* day returns (false, DAILY_LIMIT).
C2_SequentialQuota ==
    \A p \in Procs :
        res[p].cnt # None =>
            LET k == checks[uid[p]].n
            IN /\ k <= DAILY_LIMIT => res[p] = [ok |-> TRUE, cnt |-> Some(k)]
               /\ k > DAILY_LIMIT =>
                    res[p] = [ok |-> FALSE, cnt |-> Some(DAILY_LIMIT)]

\* the (DAILY_LIMIT+1)-th check of a day was made and refused
C2_Witness ==
    \E p \in Procs :
        /\ Handled(p)
        /\ checks[uid[p]].n = DAILY_LIMIT + 1
        /\ ~res[p].ok
        /\ replies[p] = << ReplyQuota >>

\* C3: a quota check during which the usage file could not be read or written
\* never ends with the message allowed.
C3_NoBypassOnFailure ==
    \A p \in Procs : fault[p] => ~res[p].ok

\* C4: a grant to a user who is premium sets premium_until to the existing
\* premium_until plus the granted days, and a grant to a user who is not
\* premium sets it to now plus the granted days.
C4_GrantStacks ==
    [][\A u \in Users, days \in GrantDays :
         set_premium(u, days) =>
            users'[u].premium_until =
                isoformat((IF is_premium(u) THEN PremiumUntil(u) ELSE now)
                          + days * TicksPerDay)]_vars

\* C5: the quota check of a user for whom is_premium holds returns
\* (true, absent) whatever the stored count is, and leaves the usage file as
\* it is.
C5_PremiumBypass ==
    [][\A p \in Procs :
         (CheckPremium(p) /\ is_premium(uid[p])) =>
            /\ res'[p] = [ok |-> TRUE, cnt |-> None]
            /\ pc'[p] = "score"
            /\ usage' = usage]_vars

\* a premium user whose stored count of today is at the limit was let through
C5_Witness ==
    \E p \in Procs :
        /\ pc[p] = "score"
        /\ res[p] = [ok |-> TRUE, cnt |-> None]
        /\ uid[p] \in DOMAIN usage
        /\ usage[uid[p]] = [date |-> dateiso(today), count |-> DAILY_LIMIT]

\* C6: is_premium(u) holds exactly when u has a record whose premium_until is
\* present and strictly later than now; and premium is lost only by time
\* passing, the record staying in the table.
C6_Unexpired(u) ==
    /\ u \in DOMAIN users
    /\ users[u].premium_until # None
    /\ IsIso(users[u].premium_until)
    /\ PremiumUntil(u) > now

C6_PremiumIffUnexpired ==
    /\ [](\A u \in Users : is_premium(u) <=> C6_Unexpired(u))
    /\ [][\A u \in Users :
            /\ (is_premium(u) /\ ~is_premium(u)') =>
                   (now' > now /\ users' = users)
            /\ u \in DOMAIN users => u \in DOMAIN users']_vars

\* a record whose premium_until equals now: the user is no longer premium
C6_Witness ==
    \E u \in DOMAIN users : PremiumUntil(u) = now /\ ~is_premium(u)

\* C7: the first check on a day other than the stored record's (whatever its
\* count) goes as for a user without a record: it is made for today, returns
\* (true, 1) and stores (today, 1).
C7_Fresh(p) ==
    \/ uid[p] \notin DOMAIN usage
    \/ usage[uid[p]].date # data[p][uid[p]].date

C7_DayRollover ==
    [][\A p \in Procs :
         /\ Decide(p) => data'[p][uid[p]].date = dateiso(today)
         /\ (SaveUsage(p) /\ C7_Fresh(p)) =>
              /\ res[p] = [ok |-> TRUE, cnt |-> Some(1)]
              /\ usage'[uid[p]] = [date |-> data[p][uid[p]].date, count |-> 1]]_vars

\* a record of an earlier day with the count at the limit, and the check of
\* today decided
C7_Witness ==
    \E p \in Procs :
        /\ pc[p] = "save"
        /\ uid[p] \in DOMAIN usage
        /\ usage[uid[p]].date # dateiso(today)
        /\ usage[uid[p]].count = DAILY_LIMIT
        /\ data[p][uid[p]] = [date |-> dateiso(today), count |-> 1]
        /\ res[p].ok

\* C8: the classifier is called only for a score s with 15 < s < 60 (so not
\* for 15 or 60, but for 16 and 59), and never for a blank message or one the
\* quota refused.
C8_Called(p) == pc[p] = "openai" \/ ai[p] # NoAi

C8_FallbackOnlyInBand ==
    /\ \A p \in Procs :
         C8_Called(p) =>
            /\ 15 < RuleScore(text[p]) /\ RuleScore(text[p]) < 60
            /\ ~text[p].blank
            /\ res[p].ok
    /\ \A s \in 0..100 : Ambiguous(s) <=> (15 < s /\ s < 60)

\* the classifier is being called for a message of score 57
C8_Witness ==
    \E p \in Procs : pc[p] = "openai" /\ RuleScore(text[p]) = 57

\* C9: when the classifier was called and failed, the one reply is the
\* rule-based result of the text, as when the classifier is not called.
C9_FailureFallsBack ==
    \A p \in Procs :
        (Handled(p) /\ ai[p].error # "") =>
            /\ replies[p] = << format_result(analyze_text_rule_based(text[p])) >>
            /\ replies[p][1].kind = "rule"
            /\ replies[p][1].verdict = RuleVerdict(RuleScore(text[p]))

\* the classifier raised and the message was answered
C9_Witness ==
    \E p \in Procs : Handled(p) /\ ai[p].error = "openai_error"

\* C10: when the classifier was called and succeeded, its answer is the one
\* and only reply.
C10_AnswerReplaces ==
    \A p \in Procs :
        (Handled(p) /\ ai[p].ok) =>
            /\ Len(replies[p]) = 1
            /\ replies[p][1] = ReplyAi(ai[p].raw)
            /\ \A i \in 1..Len(replies[p]) : replies[p][i].kind # "rule"

\* the classifier answered and the message was answered
C10_Witness ==
    \E p \in Procs : Handled(p) /\ ai[p].ok /\ replies[p] # << >>

\* C11: a message whose text is empty or only whitespace gets the one reply
\* "please send text" and nothing else: no quota check is called (the usage
\* file and the counts stay as they are), no scoring, no classifier call.
C11_Rejected(p) == Handled(p) /\ text[p].blank

C11_EmptyRejected ==
    /\ [](\A p \in Procs :
            text[p].blank =>
                /\ pc[p] \in {"idle", "done"}
                /\ calls[p] = 0
                /\ res[p] = NoRes
                /\ ai[p] = NoAi
                /\ Handled(p) => replies[p] = << ReplyEmpty >>)
    /\ [][\A p \in Procs, u \in Users :
            Receive(p, u, BlankText) =>
                /\ C11_Rejected(p)'
                /\ usage' = usage
                /\ checks' = checks
                /\ allowed' = allowed]_vars

\* a blank message of a user who has a usage record was answered
C11_Witness ==
    \E p \in Procs :
        /\ C11_Rejected(p)
        /\ replies[p] = << ReplyEmpty >>
        /\ uid[p] \in DOMAIN usage

\* C12: for a message that is not empty the quota check is called exactly once
\* and before the scorer; when it refuses, the one reply is the quota reply
\* with DAILY_LIMIT, and neither the scorer nor the classifier runs.
C12_PastCheck(p) ==
    \/ pc[p] \in {"score", "openai"}
    \/ Handled(p) /\ ~text[p].blank

C12_QuotaFirst ==
    /\ [](\A p \in Procs :
            /\ calls[p] <= 1
            /\ C12_PastCheck(p) => calls[p] = 1
            /\ pc[p] \in {"score", "openai"} => res[p].ok
            /\ (Handled(p) /\ ~text[p].blank /\ ~res[p].ok) =>
                  /\ replies[p] = << ReplyQuota >>
                  /\ replies[p][1].limit = DAILY_LIMIT
                  /\ ai[p] = NoAi)
    /\ [][\A p \in Procs :
            (Score(p) \/ Fallback(p)) => (calls[p] = 1 /\ res[p].ok)]_vars

\* a message was refused by the quota and answered
C12_Witness ==
    \E p \in Procs :
        /\ Handled(p)
        /\ ~text[p].blank
        /\ calls[p] = 1
        /\ ~res[p].ok
        /\ replies[p] = << ReplyQuota >>

\* C13: for every combination of triggered rules the score is
\* min(100, 18*k + 12*[url] + 25*[shortener] + 12*[money] + 8*[punct] +
\* 6*[shout]); so it lies in 0..100 and is 0 when no rule triggers.
C13_Scanned == scan.kind \in {"features", "string"}

C13_Raw(t) ==
    18 * t.kw + (IF t.url THEN 12 ELSE 0) + (IF t.shortener THEN 25 ELSE 0)
    + (IF t.money THEN 12 ELSE 0) + (IF t.punct THEN 8 ELSE 0)
    + (IF t.shout THEN 6 ELSE 0)

C13_ScoreFormula ==
    C13_Scanned =>
        /\ scan.score = (IF C13_Raw(scan.text) > 100 THEN 100
                         ELSE C13_Raw(scan.text))
        /\ 0 <= scan.score /\ scan.score <= 100
        /\ (/\ scan.text.kw = 0 /\ ~scan.text.url /\ ~scan.text.shortener
            /\ ~scan.text.money /\ ~scan.text.punct /\ ~scan.text.shout)
           => scan.score = 0

\* every rule triggered, all twenty keywords: the sum 423 is clamped to 100
C13_Witness ==
    /\ scan.kind = "features"
    /\ scan.text = Text(FALSE, NumKeywords, TRUE, TRUE, TRUE, TRUE, TRUE)
    /\ scan.score = 100

\* C14: the verdict is High iff score >= 60, Medium iff 30 <= score < 60 and
\* Low iff score < 30 (29 Low, 30 and 59 Medium, 60 High), and it does not go
\* down when the score goes up.
C14_Rank(verdict) ==
    CASE verdict = "Low" -> 1 [] verdict = "Medium" -> 2
      [] verdict = "High" -> 3 [] OTHER -> 0

C14_VerdictTiers ==
    scan.kind # "none" =>
        /\ scan.verdict = "High" <=> scan.score >= 60
        /\ scan.verdict = "Medium" <=> (30 <= scan.score /\ scan.score < 60)
        /\ scan.verdict = "Low" <=> scan.score < 30
        /\ \A lower \in 0..scan.score :
              C14_Rank(RuleVerdict(lower)) <= C14_Rank(scan.verdict)
        /\ C14_Rank(RuleVerdict(29)) = 1 /\ C14_Rank(RuleVerdict(30)) = 2
        /\ C14_Rank(RuleVerdict(59)) = 2 /\ C14_Rank(RuleVerdict(60)) = 3

\* the verdict of score 60 was computed
C14_Witness == scan.kind = "score" /\ scan.score = 60 /\ scan.verdict = "High"

\* C18 as stated: the example text has three keyword hits ("urgent", "verify
\* your account", "account suspended"), score 99, verdict High, no fallback.
C18_IsExample == scan.kind = "string" /\ SampleStrings[scan.src] = UrgentText

C18_ExampleAsStated ==
    C18_IsExample =>
        /\ scan.text.kw = 3
        /\ scan.score = 99
        /\ scan.verdict = "High"
        /\ ~Ambiguous(scan.score)

\* C18 amended: the example text has two keyword hits ("urgent", "verify your
\* account"; "account suspended" does not occur in it) for 36, plus URL 12,
\* shortener 25 and punctuation 8: score 81, verdict High, no fallback.
C18_Example ==
    C18_IsExample =>
        /\ KeywordHits(UrgentText) = {5, 7}
        /\ scan.text = Text(FALSE, 2, TRUE, TRUE, FALSE, TRUE, FALSE)
        /\ scan.score = 36 + 12 + 25 + 8
        /\ scan.verdict = "High"
        /\ ~Ambiguous(scan.score)

\* the example text was scanned
C18_Witness == C18_IsExample /\ scan.score = 81

\* C15: for every user, across any interleaving of message handlings, the
\* stored count never decreases while the stored day stays the same.
C15_CountMonotone ==
    [][\A u \in (DOMAIN usage) \cap (DOMAIN usage') :
          usage'[u].date = usage[u].date
              => usage'[u].count >= usage[u].count]_vars

\* C16: the quota check of one user never changes or loses the stored record
\* of another user, also when two checks run concurrently.
C16_Saves(p) == pc[p] = "save" /\ pc'[p] # "save"

C16_OthersKept ==
    [][\A p \in Procs :
          C16_Saves(p) =>
              \A u \in (DOMAIN usage) \ {uid[p]} :
                  u \in DOMAIN usage' /\ usage'[u] = usage[u]]_vars

\* C17: a message whose classifier call was started always gets an outcome,
\* also when the classifier never answers.
C17_CallEnds == (pc[1] = "openai") ~> Handled(1)

\* C19: under any interleaving of concurrent quota checks, with the usage
\* file readable and writable, every stored usage record has
\* 0 <= count <= DAILY_LIMIT.
C19_CountInRange ==
    \A u \in DOMAIN usage : 0 <= usage[u].count /\ usage[u].count <= DAILY_LIMIT

\* two handlers were between load and save at once, and a record stored at
\* the limit is in the file
C19_Witness ==
    /\ \E u \in DOMAIN usage : usage[u].count = DAILY_LIMIT
    /\ \E p, q \in Procs : p # q /\ pc[p] = "save" /\ pc[q] \in {"today", "save"}

\* C20: only a verified event of type checkout.session.completed with a
\* non-empty client_reference_id changes the users table, and it sets exactly
\* that user's row to premium until 30 days from now; an event that is
\* refused (no webhook secret, invalid signature) or is of another type or
\* has no client_reference_id leaves every row as it was; no event changes
\* the usage file.
C20_Answered == webhook' # webhook \/ users' # users

C20_Granted ==
    /\ stripe_secret
    /\ webhook'.status = 200
    /\ webhook'.type = "checkout.session.completed"
    /\ webhook'.tg \in Users
    /\ DOMAIN users' = DOMAIN users \cup {webhook'.tg}
    /\ users'[webhook'.tg] =
           [is_premium |-> 1,
            premium_until |-> isoformat(now + 30 * TicksPerDay)]
    /\ \A u \in DOMAIN users : u # webhook'.tg => users'[u] = users[u]

C20_NotGranting ==
    \/ webhook'.status \in {400, 500}
    \/ webhook'.type # "checkout.session.completed"
    \/ webhook'.tg = NoRef

C20_OnlyVerifiedCheckout ==
    [][/\ users' # users => C20_Granted
       /\ (C20_Answered /\ C20_NotGranting) => users' = users
       /\ C20_Answered => usage' = usage]_vars

\* a payment-failed event was answered while a user, made premium by an
\* earlier checkout event, has a usage record in the file
C20_Witness ==
    /\ webhook.status = 200
    /\ webhook.type = "invoice.payment_failed"
    /\ webhook.tg \in DOMAIN users
    /\ usage # EmptyDict

====
